---- MODULE Spec2Model ----
(***************************************************************************)
(* TreeSitterTree (vs/editor/browser/services/treeSitterServices/          *)
(* treeSitterTree.ts): the incremental parse synchronisation engine.       *)
(*                                                                         *)
(* The engine runs on the JavaScript event loop.  The model keeps the      *)
(* promises the code creates, the FIFO queue of promise jobs (microtasks), *)
(* and the queue of idle callbacks handed to runWhenIdle.  Calls made by   *)
(* the environment (parseTree, parseTreeAndCountCalls, a document change,  *)
(* dispose) may run between any two promise jobs; an idle callback runs    *)
(* only when the job queue is empty.                                       *)
(*                                                                         *)
(* Texts are identified by the number of changes applied to the document:  *)
(* text v is the document after changes 1..v, and change v turns text v-1  *)
(* into text v.  A tree records the text it was parsed from and the ids of *)
(* the edits applied to it in place (tree.edit) since then.                *)
(***************************************************************************)
EXTENDS Integers, Sequences, FiniteSets, TLC

\* Bounds of the model.
MaxRequests == 1   \* parseTree / parseTreeAndCountCalls calls by callers
MaxChanges == 2    \* changes made to the document
MaxRetries == 1    \* failed idle slices per fallback
MaxDispose == 2    \* calls of dispose

\* Program constants.
AsyncTimeoutMicros == 10000       \* setTimeoutMicros(10000), line 98
SliceTimeoutMicros == 50000       \* arg.timeRemaining() * 1000, line 141

VARIABLES
    docVersion,              \* this._model: the live document's text
    _edits,                  \* this._edits, the Edit Buffer
    _tree,                   \* this._tree, the Tree Store (0: undefined)
    trees,                   \* the Parser.Tree objects created so far
    _nCallsParseTree,        \* this._nCallsParseTree
    _currentParseOperation,  \* this._currentParseOperation (0: undefined)
    timeoutMicros,           \* this._parser's time budget (0: unset)
    parserDeleted,           \* number of this._parser.delete() calls
    promises,                \* the promises created so far
    microtasks,              \* the promise job queue
    idle,                    \* callbacks scheduled with runWhenIdle
    textModels,              \* text models created by createTextModel
    reqs,                    \* history: the parse requests issued
    ops,                     \* history: the fallbacks started
    lastInv,                 \* history: the last parser.parse call
    lastWrite                \* history: the last write of this._tree

vars == <<docVersion, _edits, _tree, trees, _nCallsParseTree,
          _currentParseOperation, timeoutMicros, parserDeleted, promises,
          microtasks, idle, textModels, reqs, ops, lastInv, lastWrite>>

----------------------------------------------------------------------------
\* The engine state that the promise jobs read and write, as one record, so
\* that the calls a handler makes compose.

St ==
    [tree |-> _tree, trees |-> trees, edits |-> _edits, n |-> _nCallsParseTree,
     cur |-> _currentParseOperation, tmo |-> timeoutMicros, ps |-> promises,
     mq |-> microtasks, idle |-> idle, tms |-> textModels, reqs |-> reqs,
     ops |-> ops, inv |-> lastInv, w |-> lastWrite]

Install(S) ==
    /\ _tree' = S.tree
    /\ trees' = S.trees
    /\ _edits' = S.edits
    /\ _nCallsParseTree' = S.n
    /\ _currentParseOperation' = S.cur
    /\ timeoutMicros' = S.tmo
    /\ promises' = S.ps
    /\ microtasks' = S.mq
    /\ idle' = S.idle
    /\ textModels' = S.tms
    /\ reqs' = S.reqs
    /\ ops' = S.ops
    /\ lastInv' = S.inv
    /\ lastWrite' = S.w

----------------------------------------------------------------------------
\* Promises.  A promise is pending, fulfilled or rejected; rs are the
\* reactions registered on it while pending.  A reaction names the code that
\* continues (k), the promise that code settles (p), and its captured values
\* (a: a request or promise, f: the asynchronous flag).

Reaction(k, p, a, f) == [k |-> k, p |-> p, a |-> a, f |-> f]

Job(r, st, v) == [k |-> r.k, p |-> r.p, a |-> r.a, f |-> r.f, st |-> st, v |-> v]

\* new Promise / the promise of an async function call; its id is Len(ps).
Alloc(S, st, v) == [S EXCEPT !.ps = Append(@, [st |-> st, v |-> v, rs |-> <<>>])]

\* promise.then(reaction), also `await promise`.
Then(S, p, r) ==
    IF S.ps[p].st = "pending"
    THEN [S EXCEPT !.ps[p].rs = Append(@, r)]
    ELSE [S EXCEPT !.mq = Append(@, Job(r, S.ps[p].st, S.ps[p].v))]

\* resolve(value) / reject(error) of a promise with a value that is no promise.
Settle(S, p, st, v) ==
    IF S.ps[p].st # "pending"
    THEN S
    ELSE [S EXCEPT !.ps[p] = [st |-> st, v |-> v, rs |-> <<>>],
                   !.mq = @ \o [i \in 1..Len(S.ps[p].rs) |-> Job(S.ps[p].rs[i], st, v)]]

\* resolve(q) with q a promise: a job that will call q.then(settle p).
ResolveWithPromise(S, p, q) ==
    [S EXCEPT !.mq = Append(@, Job(Reaction("thenable", p, q, FALSE), "fulfilled", 0))]

Pop(S) == [S EXCEPT !.mq = Tail(@)]

Pending(p) == p # 0 /\ promises[p].st = "pending"

----------------------------------------------------------------------------
\* The document and the Edit Buffer.

Min(a, b) == IF a < b THEN a ELSE b

\* The changes of a content-change event: each types one character at the
\* start of the document, so text v has length v.
Change == [rangeOffset |-> 0, rangeLength |-> 0, textLength |-> 1]

ChangeEvents == {<<Change>>, <<Change, Change>>}

\* registerTreeEdits assigning the buffer instead of pushing to it.
registerTreeEditsAssign(S, ev, version, len) ==
    [S EXCEPT !.edits =
        [i \in 1..Len(ev) |->
            [id |-> version + i,
             startIndex |-> ev[i].rangeOffset,
             oldEndIndex |-> ev[i].rangeOffset + ev[i].rangeLength,
             newEndIndex |-> ev[i].rangeOffset + ev[i].textLength,
             newEndColumn |-> Min(ev[i].rangeOffset + ev[i].textLength, len)]]]

\* registerTreeEdits: one Edit per change, pushed in the order of the event's
\* changes; the new end position is read from the live document, which already
\* holds every change of the event (one line: the column is the offset,
\* clamped to the document's length).
registerTreeEdits(S, ev, version, len) ==
    [S EXCEPT !.edits = @ \o
        [i \in 1..Len(ev) |->
            [id |-> version + i,
             startIndex |-> ev[i].rangeOffset,
             oldEndIndex |-> ev[i].rangeOffset + ev[i].rangeLength,
             newEndIndex |-> ev[i].rangeOffset + ev[i].textLength,
             newEndColumn |-> Min(ev[i].rangeOffset + ev[i].textLength, len)]]]

EditIds(es) == [i \in 1..Len(es) |-> es[i].id]

\* updateAndGetTree with the buffered edits applied last to first.
updateAndGetTreeReversed(S) ==
    IF S.tree = 0
    THEN S
    ELSE [S EXCEPT !.trees[S.tree].applied =
                        @ \o [i \in 1..Len(S.edits) |-> S.edits[Len(S.edits) + 1 - i].id],
                   !.edits = <<>>]

\* updateAndGetTree: with no tree, returns undefined and leaves the buffer;
\* otherwise applies every buffered edit to the tree, in order, and clears the
\* buffer.  The value returned is S.tree in both cases.
updateAndGetTree(S) ==
    IF S.tree = 0
    THEN S
    ELSE [S EXCEPT !.trees[S.tree].applied = @ \o EditIds(S.edits), !.edits = <<>>]

----------------------------------------------------------------------------
\* The parser (web-tree-sitter).

NewTree(text) == [from |-> text, applied |-> <<>>, deleted |-> 0]

\* parse returns a tree or raises (budget exceeded or structural failure: the
\* callers' catch blocks do not tell them apart).
ParseOutcomes == {"ok", "raise"}

\* _retrieveTextAtPosition reading this._model whatever model it is given.
_retrieveTextAtPositionLive(S, model) == docVersion

\* _retrieveTextAtPosition(model, ...): text of the model it is bound to
\* (0: this._model, the live document; otherwise a created text model).
_retrieveTextAtPosition(S, model) == IF model = 0 THEN docVersion ELSE S.tms[model]

\* History of one this._parser.parse(textProvider, tree) call.
Invocation(S, kind, asyn, model, base, out, op, retry) ==
    [seq |-> S.inv.seq + 1, retry |-> retry, kind |-> kind, asyn |-> asyn, budget |-> S.tmo,
     model |-> model, text |-> _retrieveTextAtPosition(S, model), base |-> base,
     from |-> IF base = 0 THEN 0 ELSE S.trees[base].from,
     applied |-> IF base = 0 THEN <<>> ELSE S.trees[base].applied,
     err |-> out, released |-> parserDeleted > 0, op |-> op, live |-> docVersion,
     busy |-> Cardinality({i \in DOMAIN S.ops :
                              i # op /\ S.ps[S.ops[i].m].st = "pending"})]

\* this._tree = t, with its history.
WriteTree(S, t, by) ==
    [S EXCEPT !.tree = t,
              !.w = [by |-> by, old |-> S.tree, new |-> t, released |-> parserDeleted > 0]]

----------------------------------------------------------------------------
\* _parseAsync(textModel, tree): a new promise and one idle callback that will
\* settle it.  Its id is Len(ps).
_parseAsync(S, tm, tree, op, k) ==
    LET S1 == Alloc(S, "pending", 0)
    IN [S1 EXCEPT !.idle = Append(@, [a |-> Len(S1.ps), tm |-> tm, tree |-> tree,
                                       op |-> op, k |-> k])]

\* The callback with a catch block that gives up: no further slice.
IdleCallbackNoRetry(S, b, out) ==
    LET c == Head(S.idle)
        S1 == [S EXCEPT !.idle = Tail(@), !.tmo = b]
        S2 == [S1 EXCEPT !.inv = Invocation(S1, "slice", TRUE, c.tm, c.tree, out, c.op, c.k)]
    IN IF out = "ok"
       THEN LET t == Len(S2.trees) + 1
                S3 == [S2 EXCEPT !.trees = Append(@, NewTree(S2.inv.text))]
            IN Settle(WriteTree(S3, t, "slice"), c.a, "fulfilled", t)
       ELSE S2

\* The callback given to runWhenIdle (lines 140-160), run with budget b.
IdleCallback(S, b, out) ==
    LET c == Head(S.idle)
        S1 == [S EXCEPT !.idle = Tail(@), !.tmo = b]
        S2 == [S1 EXCEPT !.inv = Invocation(S1, "slice", TRUE, c.tm, c.tree, out, c.op, c.k)]
    IN IF out = "ok"
       THEN LET t == Len(S2.trees) + 1
                S3 == [S2 EXCEPT !.trees = Append(@, NewTree(S2.inv.text))]
            IN Settle(WriteTree(S3, t, "slice"), c.a, "fulfilled", t)
       ELSE LET S3 == _parseAsync(S2, c.tm, c.tree, c.op, c.k + 1)
            IN Then(S3, Len(S3.ps), Reaction("settle", c.a, 0, FALSE))

\* The catch block rethrowing: the promise of _tryParseSync is rejected.
TryParseSyncRethrow(S, tree) == Alloc(S, "rejected", 0)

\* The catch block of _tryParseSync (lines 113-123): a text model holding a
\* snapshot of the live document, the promise N the function returns, the
\* first _parseAsync call and the continuation on it; then the function's own
\* promise M, resolved with N.  M's id is Len(ps).
TryParseSyncCatch(S, tree) ==
    LET tm == Len(S.tms) + 1
        op == Len(S.ops) + 1
        S1 == [S EXCEPT !.tms = Append(@, docVersion)]
        S2 == Alloc(S1, "pending", 0)
        n == Len(S2.ps)
        S3 == _parseAsync(S2, tm, tree, op, 0)
        S4 == Then(S3, Len(S3.ps), Reaction("tryParseSyncThen", n, 0, FALSE))
        S5 == Alloc(S4, "pending", 0)
        m == Len(S5.ps)
        S6 == ResolveWithPromise(S5, m, n)
    IN [S6 EXCEPT !.ops = Append(@,
            [m |-> m, base |-> tree, tm |-> tm, snap |-> docVersion,
             drained |-> IF tree = 0 THEN <<>> ELSE S.trees[tree].applied])]

\* _tryParseSync(asynchronous) (lines 95-124).  The promise it returns, M, has
\* id Len(ps): fulfilled already when the bounded attempt succeeds.
_tryParseSync(S, asyn, out) ==
    LET S1 == [S EXCEPT !.tmo = IF asyn THEN AsyncTimeoutMicros ELSE @]
        tree == S1.tree
        S2 == updateAndGetTree(S1)
        S3 == [S2 EXCEPT !.inv = Invocation(S2, "bounded", asyn, 0, tree, out, 0, 0)]
    IN IF out = "ok"
       THEN LET t == Len(S3.trees) + 1
                S4 == [S3 EXCEPT !.trees = Append(@, NewTree(S3.inv.text))]
            IN Alloc(WriteTree(S4, t, "bounded"), "fulfilled", t)
       ELSE TryParseSyncCatch(S3, tree)

----------------------------------------------------------------------------
\* _parseTree (lines 69-93).

\* History: what request r (0: none) decided.
Decided(S, r, path, op) ==
    IF r = 0 THEN S ELSE [S EXCEPT !.reqs[r].path = path, !.reqs[r].op = op]

\* The call up to `await this._currentParseOperation`; the promise of the
\* call has id Len(ps).
_parseTreeCall(S, asyn, r) ==
    LET S1 == Alloc(S, "pending", 0)
        re == Reaction("resume", Len(S1.ps), r, asyn)
    IN IF S1.cur = 0
       THEN [S1 EXCEPT !.mq = Append(@, Job(re, "fulfilled", 0))]
       ELSE Then(S1, S1.cur, re)

\* Case 1 (lines 72-87).
ParseTreeCase1(S, j, out) ==
    LET S1 == _tryParseSync(S, j.f, out)
        m == Len(S1.ps)
        S2 == [S1 EXCEPT !.cur = m]
        S3 == Then(S2, m, Reaction("parseTreeThen", m, 0, j.f))
        S4 == [S3 EXCEPT !.n = @ + 1]
    IN Decided(ResolveWithPromise(S4, j.p, S4.cur), j.a, "parse", m)

\* Case 2 taken as Case 1: the tree is parsed again.
ParseTreeCase2Reparse(S, j) == ParseTreeCase1(S, j, "ok")

\* Case 2 (lines 89-92).
ParseTreeCase2(S, j) ==
    Decided(Settle([S EXCEPT !.n = @ + 1], j.p, "fulfilled", S.tree), j.a, "hit", 0)

\* The body after the await.
_parseTreeResume(S, j, out) ==
    IF j.st = "rejected"
    THEN Settle(S, j.p, "rejected", j.v)
    ELSE IF S.tree = 0 \/ S.edits # <<>>
         THEN ParseTreeCase1(S, j, out)
         ELSE ParseTreeCase2(S, j)

\* The continuation finishing without looking at the Edit Buffer.
ParseTreeThenNoFollowUp(S, j) ==
    IF j.st = "rejected"
    THEN S
    ELSE [(IF S.cur = j.p THEN [S EXCEPT !.cur = 0] ELSE S) EXCEPT !.n = @ + 1]

\* The continuation on myParseOperation (lines 75-84).
ParseTreeThen(S, j) ==
    IF j.st = "rejected"
    THEN S
    ELSE LET S1 == IF S.cur = j.p THEN [S EXCEPT !.cur = 0] ELSE S
         IN IF S1.edits # <<>>
            THEN _parseTreeCall(S1, j.f, 0)
            ELSE [S1 EXCEPT !.n = @ + 1]

\* The continuation in _tryParseSync (lines 118-121).
TryParseSyncThen(S, j) ==
    IF j.st = "rejected"
    THEN S
    ELSE Settle(WriteTree(S, j.v, "tryParseSyncThen"), j.p, "fulfilled", j.v)

\* The continuation in the constructor (lines 31-35).
ConstructorThen(S, j) ==
    IF j.st = "rejected" \/ j.v = 0
    THEN S
    ELSE WriteTree(S, j.v, "constructor")

\* The continuation in parseTreeAndCountCalls (lines 62-64): the promise of
\* the then is resolved with Promise.resolve(this._nCallsParseTree).
CountThen(S, j) ==
    IF j.st = "rejected"
    THEN Settle(S, j.p, "rejected", j.v)
    ELSE LET S1 == Alloc(S, "fulfilled", S.n)
         IN ResolveWithPromise(S1, j.p, Len(S1.ps))

\* History of a request: the promise it returned (o), the promise of the
\* parse operation it started (op), the last edit registered while that
\* operation was pending (mid), the case it took (path), whether it was
\* issued with no job or idle callback left (calm), whether no other request
\* was issued while it was pending (alone), and whether the document and the
\* engine's lifetime are untouched since it was issued (quiet).
Request(kind, asyn, o, calm) ==
    [kind |-> kind, asyn |-> asyn, o |-> o, op |-> 0, mid |-> 0, path |-> "none",
     calm |-> calm, alone |-> TRUE, quiet |-> TRUE]

\* History: a request is issued while others are still pending.
Overlap(S) ==
    [S EXCEPT !.reqs = [i \in 1..Len(S.reqs) |->
        IF S.ps[S.reqs[i].o].st = "pending"
        THEN [S.reqs[i] EXCEPT !.alone = FALSE]
        ELSE S.reqs[i]]]

\* parseTree(asynchronous) (lines 55-58); the promise it returns has id Len(ps).
parseTree(S, asyn, kind, calm) ==
    LET r == Len(S.reqs) + 1
        S1 == _parseTreeCall([Overlap(S) EXCEPT !.n = 0], asyn, r)
        q == Len(S1.ps)
        S2 == Alloc(S1, "pending", 0)
        o == Len(S2.ps)
    IN [ResolveWithPromise(S2, o, q) EXCEPT !.reqs = Append(@, Request(kind, asyn, o, calm))]

\* parseTreeAndCountCalls(asynchronous) (lines 60-65).
parseTreeAndCountCalls(S, asyn, calm) ==
    LET r == Len(S.reqs) + 1
        S1 == _parseTreeCall([Overlap(S) EXCEPT !.n = 0], asyn, r)
        q == Len(S1.ps)
        S2 == Alloc(S1, "pending", 0)
        d == Len(S2.ps)
        S3 == Then(S2, q, Reaction("countThen", d, r, asyn))
        S4 == Alloc(S3, "pending", 0)
        o == Len(S4.ps)
    IN [ResolveWithPromise(S4, o, d) EXCEPT !.reqs = Append(@, Request("count", asyn, o, calm))]

----------------------------------------------------------------------------
\* The state after the constructor (lines 23-39): an empty Edit Buffer, no
\* tree, the initial parseTree() call suspended at its await with the
\* continuation of lines 31-35 registered, and the change listener installed.

NoInvocation ==
    [seq |-> 0, retry |-> 0, kind |-> "none", asyn |-> TRUE, budget |-> 0, model |-> 0, text |-> 0,
     base |-> 0, from |-> 0, applied |-> <<>>, err |-> "ok", released |-> FALSE, op |-> 0,
     live |-> 0, busy |-> 0]

NoWrite == [by |-> "none", old |-> 0, new |-> 0, released |-> FALSE]

Constructed ==
    LET S0 == [tree |-> 0, trees |-> <<>>, edits |-> <<>>, n |-> 0, cur |-> 0, tmo |-> 0,
               ps |-> <<>>, mq |-> <<>>, idle |-> <<>>, tms |-> <<>>, reqs |-> <<>>,
               ops |-> <<>>, inv |-> NoInvocation, w |-> NoWrite]
        S1 == parseTree(S0, TRUE, "constructor", TRUE)
    IN Then(S1, Len(S1.ps), Reaction("constructorThen", 0, 0, FALSE))

Init ==
    /\ docVersion = 0
    /\ parserDeleted = 0
    /\ _tree = Constructed.tree
    /\ trees = Constructed.trees
    /\ _edits = Constructed.edits
    /\ _nCallsParseTree = Constructed.n
    /\ _currentParseOperation = Constructed.cur
    /\ timeoutMicros = Constructed.tmo
    /\ promises = Constructed.ps
    /\ microtasks = Constructed.mq
    /\ idle = Constructed.idle
    /\ textModels = Constructed.tms
    /\ reqs = Constructed.reqs
    /\ ops = Constructed.ops
    /\ lastInv = Constructed.inv
    /\ lastWrite = Constructed.w

----------------------------------------------------------------------------
\* Calls made by the environment.

Quiescent == microtasks = <<>> /\ idle = <<>>

CallParseTree ==
    /\ Len(reqs) < MaxRequests + 1
    /\ \E asyn \in BOOLEAN : Install(parseTree(St, asyn, "tree", Quiescent))
    /\ UNCHANGED <<docVersion, parserDeleted>>

CallParseTreeAndCountCalls ==
    /\ Len(reqs) < MaxRequests + 1
    /\ \E asyn \in BOOLEAN : Install(parseTreeAndCountCalls(St, asyn, Quiescent))
    /\ UNCHANGED <<docVersion, parserDeleted>>

\* History: an edit is registered while a request's own fallback is pending;
\* the document changes after a request was issued.
Noted(S, listening, version) ==
    [S EXCEPT !.reqs = [i \in 1..Len(S.reqs) |->
        LET r == S.reqs[i]
        IN [r EXCEPT !.quiet = FALSE,
                     !.mid = IF listening /\ r.op # 0 /\ S.ps[r.op].st = "pending"
                             THEN version ELSE r.mid]]]

\* The document changes; while the listener of lines 36-38 is installed the
\* event is handed to registerTreeEdits.
ChangeContent ==
    \E ev \in ChangeEvents :
        /\ docVersion + Len(ev) <= MaxChanges
        /\ docVersion' = docVersion + Len(ev)
        /\ Install(Noted(IF parserDeleted = 0
                         THEN registerTreeEdits(St, ev, docVersion, docVersion + Len(ev))
                         ELSE St,
                         parserDeleted = 0, docVersion + Len(ev)))
        /\ UNCHANGED parserDeleted

\* dispose (lines 176-181).
dispose(S) ==
    [S EXCEPT !.trees = IF S.tree = 0 THEN @ ELSE [@ EXCEPT ![S.tree].deleted = @ + 1],
              !.edits = <<>>]

Dispose ==
    /\ parserDeleted < MaxDispose
    /\ parserDeleted' = parserDeleted + 1
    /\ Install(Noted(dispose(St), FALSE, 0))
    /\ UNCHANGED docVersion

----------------------------------------------------------------------------
\* Promise jobs, run in FIFO order.

HeadIs(k) == microtasks # <<>> /\ Head(microtasks).k = k

RunParseTreeResume ==
    /\ HeadIs("resume")
    /\ LET j == Head(microtasks)
       IN \E out \in ParseOutcomes :
            Install(_parseTreeResume(Pop(St), j, out))
    /\ UNCHANGED <<docVersion, parserDeleted>>

RunThenable ==
    /\ HeadIs("thenable")
    /\ LET j == Head(microtasks)
       IN Install(Then(Pop(St), j.a, Reaction("settle", j.p, 0, FALSE)))
    /\ UNCHANGED <<docVersion, parserDeleted>>

RunSettle ==
    /\ HeadIs("settle")
    /\ LET j == Head(microtasks)
       IN Install(Settle(Pop(St), j.p, j.st, j.v))
    /\ UNCHANGED <<docVersion, parserDeleted>>

RunParseTreeThen ==
    /\ HeadIs("parseTreeThen")
    /\ Install(ParseTreeThen(Pop(St), Head(microtasks)))
    /\ UNCHANGED <<docVersion, parserDeleted>>

RunTryParseSyncThen ==
    /\ HeadIs("tryParseSyncThen")
    /\ Install(TryParseSyncThen(Pop(St), Head(microtasks)))
    /\ UNCHANGED <<docVersion, parserDeleted>>

RunConstructorThen ==
    /\ HeadIs("constructorThen")
    /\ Install(ConstructorThen(Pop(St), Head(microtasks)))
    /\ UNCHANGED <<docVersion, parserDeleted>>

RunCountThen ==
    /\ HeadIs("countThen")
    /\ Install(CountThen(Pop(St), Head(microtasks)))
    /\ UNCHANGED <<docVersion, parserDeleted>>

\* An idle callback runs when no promise job is left.
RunIdleCallback ==
    /\ microtasks = <<>>
    /\ idle # <<>>
    /\ \E out \in ParseOutcomes :
        /\ out # "ok" => Head(idle).k < MaxRetries
        /\ Install(IdleCallback(St, SliceTimeoutMicros, out))
    /\ UNCHANGED <<docVersion, parserDeleted>>

Next ==
    \/ CallParseTree
    \/ CallParseTreeAndCountCalls
    \/ ChangeContent
    \/ Dispose
    \/ RunParseTreeResume
    \/ RunThenable
    \/ RunSettle
    \/ RunParseTreeThen
    \/ RunTryParseSyncThen
    \/ RunConstructorThen
    \/ RunCountThen
    \/ RunIdleCallback

Spec == Init /\ [][Next]_vars

\* The event loop: a queued promise job is run, and a callback given to
\* runWhenIdle is run once the job queue is empty (at the latest after its
\* timeout of 1000 ms, line 161).  A slice's parse succeeds at the latest
\* after MaxRetries failures.  FairSpec is Spec with weak fairness of
\* EventLoop, written out: an EventLoop step is possible exactly when the
\* engine is not Quiescent, so either the engine is Quiescent again and
\* again or EventLoop steps are taken again and again.
EventLoop ==
    \/ RunParseTreeResume
    \/ RunThenable
    \/ RunSettle
    \/ RunParseTreeThen
    \/ RunTryParseSyncThen
    \/ RunConstructorThen
    \/ RunCountThen
    \/ RunIdleCallback

FairSpec == Spec /\ ([]<>Quiescent \/ []<><<EventLoop>>_vars)

----------------------------------------------------------------------------
\* Properties.

Fulfilled(p) == promises[p].st = "fulfilled"

\* The fallbacks that have not resolved yet.
InFlight == {i \in DOMAIN ops : Pending(ops[i].m)}

\* The requests made by callers (request 1 is the constructor's).
Callers == {r \in DOMAIN reqs : r > 1}

\* C1 (single-flight): at most one parse operation is in flight, and the
\* parser is never invoked for one operation while another is in flight.
C1_SingleFlight ==
    /\ Cardinality(InFlight) <= 1
    /\ lastInv.busy = 0

\* C2 (no lost edits across fallback): a request whose own fallback was
\* pending when an edit was registered resolves with a tree parsed from a text
\* that holds that edit.
C2_NoLostEdits ==
    \A r \in DOMAIN reqs :
        (reqs[r].kind # "count" /\ reqs[r].mid > 0 /\ Fulfilled(reqs[r].o))
            => trees[promises[reqs[r].o].v].from >= reqs[r].mid

\* A request made on an engine at rest, with nothing else happening while it
\* is served.
Sequential(r) == reqs[r].calm /\ reqs[r].alone /\ reqs[r].quiet

C4_EditOrdering ==
    [][(lastInv'.seq # lastInv.seq /\ lastInv'.kind = "bounded" /\ _tree # 0)
          => /\ trees'[_tree].applied = trees[_tree].applied \o EditIds(_edits)
             /\ lastInv'.base = _tree
             /\ lastInv'.applied = trees'[_tree].applied
             /\ _edits' = <<>>
      ]_vars

\* C4's case: two buffered edits were applied, in order, to a fresh tree.
C4_Witness ==
    lastInv.kind = "bounded" /\ lastInv.base # 0 /\ Len(lastInv.applied) >= 2

\* C5 (synchronous mode has no time budget): the bounded attempt of a request
\* made with asynchronous = false runs with the parser's budget unset.
C5_SyncNoBudget ==
    (lastInv.kind = "bounded" /\ ~lastInv.asyn) => lastInv.budget = 0

\* C6 (snapshot isolation): every slice reads a created text model, never the
\* live document, and the text it reads is the text the document had when the
\* bounded attempt failed; the text model keeps that text.
C6_SnapshotIsolation ==
    /\ lastInv.kind = "slice"
        => /\ lastInv.model # 0
           /\ lastInv.text = ops[lastInv.op].snap
    /\ \A i \in DOMAIN ops : textModels[ops[i].tm] = ops[i].snap

\* C6's case: a slice ran after the live document had changed.
C6_Witness ==
    lastInv.kind = "slice" /\ lastInv.live > lastInv.text

\* C7 (no tearing): while a fallback is in flight, the baseline tree handed to
\* it holds exactly the edits it held after the drain that started it.
C7_NoTearing ==
    \A i \in InFlight :
        ops[i].base # 0 => trees[ops[i].base].applied = ops[i].drained

\* The edits that turn text a into text b.
EditsBetween(a, b) == [k \in 1..(b - a) |-> a + k]

\* C8 (consistent baseline): at every parser invocation with a baseline, the
\* edits applied to the baseline are exactly those between the text it was
\* parsed from and the text the invocation reads.
C8_ConsistentBaseline ==
    lastInv.base # 0
        => /\ lastInv.from <= lastInv.text
           /\ lastInv.applied = EditsBetween(lastInv.from, lastInv.text)

\* C9 (failures are not surfaced): no promise is ever rejected; a parser call
\* that raises leaves an idle callback scheduled for its fallback; a request
\* stays pending while the operation it started is pending, and what a
\* parseTree request resolves with is a tree.
C9_NoRejection ==
    [][/\ \A p \in DOMAIN promises' : promises'[p].st # "rejected"
       /\ (lastInv'.seq # lastInv.seq /\ lastInv'.err = "raise")
            => /\ idle' # <<>>
               /\ Len(idle') = Len(idle) + (IF lastInv'.kind = "bounded" THEN 1 ELSE 0)
               /\ idle'[Len(idle')].op =
                    (IF lastInv'.kind = "bounded" THEN Len(ops') ELSE lastInv'.op)
               /\ Len(ops') = Len(ops) + (IF lastInv'.kind = "bounded" THEN 1 ELSE 0)
       /\ \A r \in DOMAIN reqs' :
            /\ (reqs'[r].op # 0 /\ promises'[reqs'[r].op].st = "pending")
                    => promises'[reqs'[r].o].st = "pending"
            /\ (reqs'[r].kind # "count" /\ promises'[reqs'[r].o].st = "fulfilled")
                    => promises'[reqs'[r].o].v \in DOMAIN trees'
      ]_vars

\* C9's case: a caller's request whose bounded attempt raised, and whose
\* fallback had a slice raise too, has resolved.
C9_Witness ==
    \E r \in Callers : \E i \in DOMAIN ops :
        /\ ops[i].m = reqs[r].op
        /\ Fulfilled(reqs[r].o)
        /\ lastInv.kind = "slice" /\ lastInv.op = i /\ lastInv.err = "ok"
        /\ lastInv.retry >= 1

\* C10 (continuations no-op after dispose): no idle slice invokes the parser
\* once it is released, and no slice or continuation writes the Tree Store
\* once the engine is disposed.
C10_NoUseAfterDispose ==
    /\ lastInv.kind = "slice" => ~lastInv.released
    /\ lastWrite.by \in {"slice", "tryParseSyncThen", "constructor"} => ~lastWrite.released

\* C11 (dispose is idempotent): however often dispose is called, the parser
\* is released once and every tree at most once, and once the engine is
\* disposed the Edit Buffer is empty.
C11_DisposeIdempotent ==
    /\ parserDeleted <= 1
    /\ \A t \in DOMAIN trees : trees[t].deleted <= 1
    /\ parserDeleted > 0 => _edits = <<>>

\* C12 (every attempt drains the buffer): a bounded attempt leaves the Edit
\* Buffer empty, whether or not a tree existed when it began.
C12_DrainBeforeParse ==
    [][(lastInv'.seq # lastInv.seq /\ lastInv'.kind = "bounded") => _edits' = <<>>]_vars

\* C13 (exactly one live tree): at most one tree made by the parser is
\* unreleased.
C13_OneLiveTree ==
    Cardinality({t \in DOMAIN trees : trees[t].deleted = 0}) <= 1

\* C14 (the count is the request's own decisions): a parseTreeAndCountCalls
\* request that was served on the cache-hit path, one decision and no parse,
\* resolves with 1, whatever other requests are pending around it.
C14_CountOwnDecisions ==
    \A r \in Callers :
        (reqs[r].kind = "count" /\ reqs[r].path = "hit" /\ Fulfilled(reqs[r].o))
            => promises[reqs[r].o].v = 1

\* C15 (registerTreeEdits only appends): a change notification delivered to
\* the listener appends one Edit per change, in the event's order, to the end
\* of the Edit Buffer; it leaves the tree, the trees, the current parse
\* operation, the call counter and the parser's budget as they were, invokes
\* no parse and starts no promise, job or idle callback.
C15_RegisterOnlyAppends ==
    [][(docVersion' # docVersion /\ parserDeleted = 0)
          => /\ Len(_edits') = Len(_edits) + (docVersion' - docVersion)
             /\ SubSeq(_edits', 1, Len(_edits)) = _edits
             /\ \A i \in 1..(docVersion' - docVersion) :
                    _edits'[Len(_edits) + i].id = docVersion + i
             /\ _tree' = _tree /\ trees' = trees
             /\ _currentParseOperation' = _currentParseOperation
             /\ _nCallsParseTree' = _nCallsParseTree
             /\ timeoutMicros' = timeoutMicros
             /\ lastInv' = lastInv /\ ops' = ops
             /\ promises' = promises /\ microtasks' = microtasks /\ idle' = idle
      ]_vars

\* C15's case: the Edit Buffer holds the edits of two changes, in the order
\* of the changes, on an engine that holds a tree and has a fallback in flight.
C15_Witness ==
    /\ Len(_edits) = 2 /\ _edits[1].id = docVersion - 1 /\ _edits[2].id = docVersion
    /\ _edits[2].newEndColumn = 1
    /\ _tree # 0 /\ InFlight # {} /\ parserDeleted = 0

\* The requests that have not resolved yet.
Waiting == {r \in DOMAIN reqs : Pending(reqs[r].o)}

\* C16 (fallback liveness): a slice that fails leaves one further slice
\* scheduled for its fallback, whatever the number of slices that failed
\* before; a slice that succeeds stores its tree in the Tree Store and the
\* continuation of the fallback stores that tree again; and, the event loop
\* running and some slice succeeding, every fallback in flight resolves,
\* the current parse operation is cleared and every pending request resolves.
C16_FallbackLiveness ==
    /\ [][/\ (lastInv'.seq # lastInv.seq /\ lastInv'.kind = "slice" /\ lastInv'.err = "raise")
              => /\ Len(idle') = Len(idle)
                 /\ idle'[Len(idle')].op = lastInv'.op
                 /\ idle'[Len(idle')].k = lastInv'.retry + 1
                 /\ idle'[Len(idle')].tm = lastInv'.model
                 /\ idle'[Len(idle')].tree = lastInv'.base
          /\ (lastInv'.seq # lastInv.seq /\ lastInv'.kind = "slice" /\ lastInv'.err = "ok")
              => /\ _tree' = Len(trees') /\ Len(trees') = Len(trees) + 1
                 /\ promises'[Head(idle).a].st = "fulfilled"
                 /\ promises'[Head(idle).a].v = _tree'
          /\ (/\ HeadIs("tryParseSyncThen")
              /\ \A i \in DOMAIN microtasks' :
                    ~(microtasks'[i].k = "tryParseSyncThen"
                      /\ microtasks'[i].p = Head(microtasks).p))
              => /\ _tree' = Head(microtasks).v
                 /\ promises'[Head(microtasks).p].st = "fulfilled"
                 /\ promises'[Head(microtasks).p].v = Head(microtasks).v
         ]_vars
    /\ (InFlight # {} \/ _currentParseOperation # 0 \/ Waiting # {})
            ~> (InFlight = {} /\ _currentParseOperation = 0 /\ Waiting = {})

\* C16's case: a fallback whose first slice failed has resolved with the tree
\* now in the Tree Store, the current parse operation is cleared and a
\* caller's request issued while the engine was busy has resolved.
C16_Witness ==
    /\ lastInv.kind = "slice" /\ lastInv.retry >= 1 /\ lastInv.err = "ok"
    /\ Fulfilled(ops[lastInv.op].m) /\ promises[ops[lastInv.op].m].v = _tree
    /\ _currentParseOperation = 0
    /\ InFlight = {} /\ Waiting = {}
    /\ \E r \in Callers : ~reqs[r].calm

\* The _parseTree calls made by the engine itself (no request) that are
\* suspended at their await or queued to resume.
FollowUps(ps, mq) ==
    {q \in DOMAIN ps :
        \/ \E i \in DOMAIN mq : mq[i].k = "resume" /\ mq[i].a = 0 /\ mq[i].p = q
        \/ \E p \in DOMAIN ps : \E i \in DOMAIN ps[p].rs :
                ps[p].rs[i].k = "resume" /\ ps[p].rs[i].a = 0 /\ ps[p].rs[i].p = q}

\* C17 (automatic follow-up parse): when the continuation of a parse
\* operation finds the Edit Buffer non-empty it starts a _parseTree call of
\* its own, and does not parse itself; when that call resumes with the buffer
\* still non-empty it drains the buffer and runs a bounded attempt on the
\* live document; and, the event loop running, from a state where an
\* operation is completing with a non-empty buffer on an engine not disposed
\* a state is reached where the buffer is empty and no operation is in
\* flight, or the engine is disposed.
C17_FollowUpParse ==
    /\ [][/\ (/\ HeadIs("parseTreeThen")
               /\ \A i \in DOMAIN microtasks' :
                    ~(microtasks'[i].k = "parseTreeThen"
                      /\ microtasks'[i].p = Head(microtasks).p)
               /\ _edits # <<>>)
              => /\ Len(promises') = Len(promises) + 1
                 /\ Len(promises') \in FollowUps(promises', microtasks')
                 /\ lastInv' = lastInv /\ _edits' = _edits
          /\ (/\ HeadIs("resume") /\ Head(microtasks).a = 0
               /\ Head(microtasks).p \notin FollowUps(promises', microtasks')
               /\ _edits # <<>>)
              => /\ lastInv'.seq = lastInv.seq + 1
                 /\ lastInv'.kind = "bounded"
                 /\ lastInv'.model = 0 /\ lastInv'.text = docVersion
                 /\ _tree # 0 => _edits' = <<>>
         ]_vars
    /\ (HeadIs("parseTreeThen") /\ _edits # <<>> /\ parserDeleted = 0)
            ~> ((_edits = <<>> /\ InFlight = {} /\ _currentParseOperation = 0)
                \/ parserDeleted > 0)

\* C17's case: with no request but the constructor's, a second bounded
\* attempt has parsed a text newer than its baseline's, and the engine is at
\* rest with an empty buffer.
C17_Witness ==
    /\ Len(reqs) = 1 /\ parserDeleted = 0
    /\ lastInv.kind = "bounded" /\ lastInv.err = "ok"
    /\ lastInv.base # 0 /\ lastInv.from < lastInv.text
    /\ _edits = <<>> /\ InFlight = {} /\ _currentParseOperation = 0

\* C18 (no return around an in-flight parse): a request is served on the
\* cache-hit path only while no fallback is in flight, and the tree it is
\* handed has no edit applied that has not been parsed.
C18_NoHitWhileInFlight ==
    [][\A r \in DOMAIN reqs :
          (reqs'[r].path = "hit" /\ reqs[r].path # "hit")
              => /\ InFlight = {}
                 /\ trees[_tree].applied = <<>>
      ]_vars

\* C19 (Tree Store writes are monotonic): every write of the Tree Store
\* stores a tree parsed from a text at least as recent as the text of the
\* tree it replaces; and with an empty Edit Buffer and nothing pending on an
\* engine not disposed, the stored tree was parsed from the live text.
C19_MonotonicWrites ==
    /\ lastWrite.old # 0 => trees[lastWrite.new].from >= trees[lastWrite.old].from
    /\ (Quiescent /\ _edits = <<>> /\ _tree # 0 /\ parserDeleted = 0)
            => trees[_tree].from = docVersion

\* C20 (no edit applied to a tree that reflects it): every edit applied to a
\* tree is newer than the text the tree was parsed from, and no edit is
\* applied twice, to one tree or to two.
C20_NoDoubleApply ==
    /\ \A t \in DOMAIN trees : \A i \in DOMAIN trees[t].applied :
            trees[t].applied[i] > trees[t].from
    /\ \A t, u \in DOMAIN trees :
            \A i \in DOMAIN trees[t].applied : \A k \in DOMAIN trees[u].applied :
                trees[t].applied[i] = trees[u].applied[k] => (t = u /\ i = k)

====
